---- MODULE Spec2Model ----
(***************************************************************************)
(* Model of the retrier package (src/retrier.go, lines 126-262): a Retrier *)
(* holding max and delayf, the delay functions, and Run / RunCtx / sleep.  *)
(*                                                                         *)
(* Each call of Run or RunCtx is a process with a position pc:             *)
(*   "unused"  the caller does not exist in this configuration             *)
(*   "idle"    RunCtx has not been called yet                              *)
(*   "loop"    at the top of the for loop, work about to be invoked        *)
(*   "select"  inside sleep: time.After has run, select not entered yet    *)
(*   "parked"  inside sleep: blocked in select, no case was ready          *)
(*   "done"    RunCtx has returned, result holds the returned error        *)
(* Durations are integer nanoseconds.                                      *)
(***************************************************************************)
EXTENDS Integers, Sequences, FiniteSets, TLC

\* ------------------------------------------------------------------ bounds
\* Work is invoked at most this many times in one run (runs with max = -1 are
\* unbounded in the code).
MaxInvocations == 3
\* The largest retry limit a Retrier is constructed with.
MaxMax == 1
\* A caller calls again at most this many times after its first call.
MaxRuns == 1

\* The callers of Run / RunCtx.
Calls == {"A", "B"}

\* ------------------------------------------------------------ error values
\* An error value is its text plus the text of the error it wraps (%w).
Err(text) == [text |-> text, wraps |-> "none"]
Nil == Err("nil")
\* Errors a work function returns: opaque to the retrier.
WorkErrors == {Err("e1"), Err("e2")}
\* context.Canceled and context.DeadlineExceeded
TokenErrors == {Err("context canceled"), Err("context deadline exceeded")}
\* The value of result while RunCtx has not returned.
Pending == Err("pending")

\* Variant: the cause is formatted with %v and cannot be unwrapped.
ErrorfDropsCause(err) == [text |-> "failed after max retries", wraps |-> "none"]
\* Variant: a nil work error yields a nil result when the budget is spent.
ErrorfNilIsNil(err) ==
    IF err = Nil THEN Nil
    ELSE [text |-> "failed after max retries", wraps |-> err.text]
\* fmt.Errorf("failed after max retries: %w", err)
Errorf(err) == [text |-> "failed after max retries", wraps |-> err.text]
\* errors.Unwrap on a value built by Errorf
Unwrap(e) == Err(e.wraps)
IsBudgetExhausted(e) == e.text = "failed after max retries"

\* What one invocation of work returns: (error, bool).
Outcomes == [err : WorkErrors \cup {Nil}, ret : BOOLEAN]

\* --------------------------------------------------------- delay functions
Millisecond == 1000000
\* The retry counts a delay function is applied to in this model.
RetryIdx == 0..(MaxInvocations + 1)

RECURSIVE Pow(_, _)
\* math.Pow on small non-negative integers, where it is exact
Pow(base, n) == IF n = 0 THEN 1 ELSE base * Pow(base, n - 1)
Min(a, b) == IF a < b THEN a ELSE b

NoDelay == [retries \in RetryIdx |-> 0]
ConstantDelay(delay) == [retries \in RetryIdx |-> delay * Millisecond]
\* Variant: the delay starts at zero, (step * retries).
LinearDelayFromZero(step) == [retries \in RetryIdx |-> retries * step]
LinearDelay(step) == [retries \in RetryIdx |-> step + retries * step]
\* Variant: the comparison is reversed.
CappedLinearDelayReversed(step, cap) ==
    [retries \in RetryIdx |->
        LET delay == step + retries * step
        IN  IF delay > cap THEN delay ELSE cap]
CappedLinearDelay(step, cap) ==
    [retries \in RetryIdx |->
        LET delay == step + retries * step
        IN  IF delay < cap THEN delay ELSE cap]
\* Variant: the exponent is one too large.
ExponentialDelayNextPower(coef, base) ==
    [retries \in RetryIdx |-> (coef * Pow(base, retries + 1)) * Millisecond]
ExponentialDelay(coef, base) ==
    [retries \in RetryIdx |-> (coef * Pow(base, retries)) * Millisecond]
\* Variant: cap is taken as nanoseconds.
CappedExponentialDelayRawCap(coef, base, cap) ==
    [retries \in RetryIdx |->
        LET raw == coef * Pow(base, retries)
        IN  Min(raw * Millisecond, cap)]
CappedExponentialDelay(coef, base, cap) ==
    [retries \in RetryIdx |->
        LET raw == coef * Pow(base, retries)
            millis == Min(raw, cap)
        IN  millis * Millisecond]

\* The delay functions a Retrier is constructed with.
Schedules ==
    { NoDelay,
      ConstantDelay(5),
      LinearDelay(Millisecond),
      CappedLinearDelay(Millisecond, 2 * Millisecond),
      ExponentialDelay(1, 2),
      CappedExponentialDelay(1, 2, 3) }

\* ------------------------------------------------------------------- state
VARIABLES
    max,        \* Retrier.max
    delayf,     \* Retrier.delayf
    pc,         \* position of each call
    entry,      \* "none", "Run" or "RunCtx": how the call was made
    ctx,        \* the context RunCtx was given: "Background" or "Token"
    tokenErr,   \* Err() of the caller's cancellation token, Nil until it fires
    retries,    \* the local retries of RunCtx
    timer,      \* the channel of time.After holds a value
    woken,      \* which case readied a parked select: "none", "timer", "ctx"
    result,     \* the error RunCtx returned
    outs,       \* history: the outcomes work returned, in order
    sleeps,     \* history: the durations passed to sleep, in order
    completed,  \* history: the number of sleeps that returned nil
    firedAt,    \* history: pc, timer and Len(sleeps) when the token fired
    runs,       \* history: the number of earlier calls each caller completed
    work,       \* the work function each caller passes: callers may share one
    dcall       \* the last evaluation of a delay function: input and output

vars == << max, delayf, pc, entry, ctx, tokenErr, retries, timer, woken,
           result, outs, sleeps, completed, firedAt, runs, work, dcall >>

NeverFired == [pc |-> "never", timer |-> FALSE, sleeps |-> 0]
\* No delay function has been evaluated.
NoCall == [fn |-> "none", a |-> 0, b |-> 0, cap |-> 0, n |-> 0, out |-> 0]

\* NewRetrier(max, delayf)
NewRetrier(m, f) == max = m /\ delayf = f

InitCalls(callers) ==
    /\ work \in { w \in [Calls -> {"w1", "w2"}] : w["A"] = "w1" }
    /\ pc = [c \in Calls |-> IF c \in callers THEN "idle" ELSE "unused"]
    /\ entry = [c \in Calls |-> "none"]
    /\ ctx = [c \in Calls |-> "Background"]
    /\ tokenErr = [c \in Calls |-> Nil]
    /\ retries = [c \in Calls |-> 0]
    /\ timer = [c \in Calls |-> FALSE]
    /\ woken = [c \in Calls |-> "none"]
    /\ result = [c \in Calls |-> Pending]
    /\ outs = [c \in Calls |-> << >>]
    /\ sleeps = [c \in Calls |-> << >>]
    /\ completed = [c \in Calls |-> 0]
    /\ firedAt = [c \in Calls |-> NeverFired]
    /\ runs = [c \in Calls |-> 0]
    /\ dcall = NoCall

\* One caller.
Init ==
    /\ \E m \in (-3)..MaxMax, f \in Schedules : NewRetrier(m, f)
    /\ InitCalls({"A"})
    /\ work["B"] = "w1"

\* ctx.Done() is ready: context.Background() has a nil Done channel.
Done(c) == ctx[c] = "Token" /\ tokenErr[c] # Nil
\* Variant: sleep builds a cancellation error of its own.
CtxErrCanceled(c) == Err("context canceled")
\* ctx.Err()
CtxErr(c) == IF ctx[c] = "Token" THEN tokenErr[c] ELSE Nil

\* The caller's token fires: cancel() is called or its deadline passes.  A
\* select parked on ctx.Done() with no case chosen yet is readied by it.
\* (A call that was not given the token has no token to fire.)
CtxFire(c, e) ==
    /\ pc[c] = "idle" \/ (pc[c] # "unused" /\ ctx[c] = "Token")
    /\ tokenErr[c] = Nil
    /\ tokenErr' = [tokenErr EXCEPT ![c] = e]
    /\ woken' = [woken EXCEPT ![c] =
                    IF pc[c] = "parked" /\ ctx[c] = "Token" /\ woken[c] = "none"
                    THEN "ctx" ELSE @]
    /\ firedAt' = [firedAt EXCEPT ![c] =
                    [pc |-> pc[c], timer |-> timer[c],
                     sleeps |-> Len(sleeps[c])]]
    /\ UNCHANGED << max, delayf, pc, entry, ctx, retries, timer, result,
                    outs, sleeps, completed, runs, work, dcall >>

\* Variant: Run hands the caller's token to RunCtx.
RunWithToken(c) ==
    /\ pc[c] = "idle"
    /\ pc' = [pc EXCEPT ![c] = "loop"]
    /\ entry' = [entry EXCEPT ![c] = "Run"]
    /\ ctx' = [ctx EXCEPT ![c] = "Token"]
    /\ retries' = [retries EXCEPT ![c] = 0]
    /\ UNCHANGED << max, delayf, tokenErr, timer, woken, result, outs,
                    sleeps, completed, firedAt, runs, work, dcall >>
\* Run: RunCtx with context.Background() and work wrapped to ignore ctx.
Run(c) ==
    /\ pc[c] = "idle"
    /\ pc' = [pc EXCEPT ![c] = "loop"]
    /\ entry' = [entry EXCEPT ![c] = "Run"]
    /\ ctx' = [ctx EXCEPT ![c] = "Background"]
    /\ retries' = [retries EXCEPT ![c] = 0]
    /\ UNCHANGED << max, delayf, tokenErr, timer, woken, result, outs,
                    sleeps, completed, firedAt, runs, work, dcall >>

\* Variant: retries outlives the call, as a field of the Retrier would.
RunCtxKeepsCounter(c, k) ==
    /\ pc[c] = "idle"
    /\ pc' = [pc EXCEPT ![c] = "loop"]
    /\ entry' = [entry EXCEPT ![c] = "RunCtx"]
    /\ ctx' = [ctx EXCEPT ![c] = k]
    /\ UNCHANGED << max, delayf, tokenErr, retries, timer, woken, result,
                    outs, sleeps, completed, firedAt, runs, work, dcall >>
\* Variant: retries is a counter shared by the calls on the Retrier.
RunCtxSharedCounter(c, k) ==
    /\ pc[c] = "idle"
    /\ pc' = [pc EXCEPT ![c] = "loop"]
    /\ entry' = [entry EXCEPT ![c] = "RunCtx"]
    /\ ctx' = [ctx EXCEPT ![c] = k]
    /\ retries' = [d \in Calls |-> 0]
    /\ UNCHANGED << max, delayf, tokenErr, timer, woken, result, outs,
                    sleeps, completed, firedAt, runs, work, dcall >>
\* Variant: RunCtx looks at the token before it invokes work.
RunCtxChecksToken(c, k) ==
    /\ pc[c] = "idle"
    /\ entry' = [entry EXCEPT ![c] = "RunCtx"]
    /\ ctx' = [ctx EXCEPT ![c] = k]
    /\ retries' = [retries EXCEPT ![c] = 0]
    /\ IF k = "Token" /\ tokenErr[c] # Nil
       THEN /\ pc' = [pc EXCEPT ![c] = "done"]
            /\ result' = [result EXCEPT ![c] = tokenErr[c]]
       ELSE /\ pc' = [pc EXCEPT ![c] = "loop"]
            /\ UNCHANGED result
    /\ UNCHANGED << max, delayf, tokenErr, timer, woken, outs, sleeps,
                    completed, firedAt, runs, work, dcall >>
\* RunCtx is called with context k; retries := 0.
RunCtx(c, k) ==
    /\ pc[c] = "idle"
    /\ pc' = [pc EXCEPT ![c] = "loop"]
    /\ entry' = [entry EXCEPT ![c] = "RunCtx"]
    /\ ctx' = [ctx EXCEPT ![c] = k]
    /\ retries' = [retries EXCEPT ![c] = 0]
    /\ UNCHANGED << max, delayf, tokenErr, timer, woken, result, outs,
                    sleeps, completed, firedAt, runs, work, dcall >>

\* The outcomes work can return on its next invocation in call c.  The
\* outcome of a work function depends on the invocation index (as the
\* counting task of TestRunCtx): an index that another call handed the same
\* work has already reached returns what it returned there.
WorkOutcomes(c) ==
    LET i == Len(outs[c]) + 1
        seen == { outs[d][i] :
                    d \in { d \in Calls : work[d] = work[c] /\ Len(outs[d]) >= i } }
    IN  IF seen = {} THEN Outcomes ELSE seen

\* Variants: the budget tested before ret; > for >=; no -1 sentinel.
DecideBudgetFirst(ret, r) ==
    IF max # -1 /\ r >= max THEN "exhausted"
    ELSE IF ~ret THEN "return"
    ELSE "sleep"
DecideOffByOne(ret, r) ==
    IF ~ret THEN "return"
    ELSE IF max # -1 /\ r > max THEN "exhausted"
    ELSE "sleep"
DecideNoSentinel(ret, r) ==
    IF ~ret THEN "return"
    ELSE IF r >= max THEN "exhausted"
    ELSE "sleep"
\* Variant: every negative max means no limit.
DecideNegativeUnlimited(ret, r) ==
    IF ~ret THEN "return"
    ELSE IF max >= 0 /\ r >= max THEN "exhausted"
    ELSE "sleep"
\* The if / else-if chain of the loop body.
Decide(ret, r) ==
    IF ~ret THEN "return"
    ELSE IF max # -1 /\ r >= max THEN "exhausted"
    ELSE "sleep"

\* Variant: the delay is asked for the retry count after the increment.
DelayArgNext(r) == r + 1
\* The argument of r.delayf in the loop body.
DelayArg(r) == r

\* One pass of the loop body up to the select of sleep: work is invoked and
\* returns o; RunCtx returns, or calls r.delayf and time.After.
Invoke(c) ==
    /\ pc[c] = "loop"
    /\ Len(outs[c]) < MaxInvocations
    /\ \E o \in WorkOutcomes(c) :
        /\ outs' = [outs EXCEPT ![c] = Append(@, o)]
        /\ CASE Decide(o.ret, retries[c]) = "return" ->
                  /\ result' = [result EXCEPT ![c] = o.err]
                  /\ pc' = [pc EXCEPT ![c] = "done"]
                  /\ UNCHANGED << sleeps, timer >>
             [] Decide(o.ret, retries[c]) = "exhausted" ->
                  /\ result' = [result EXCEPT ![c] = Errorf(o.err)]
                  /\ pc' = [pc EXCEPT ![c] = "done"]
                  /\ UNCHANGED << sleeps, timer >>
             [] Decide(o.ret, retries[c]) = "sleep" ->
                  /\ sleeps' = [sleeps EXCEPT ![c] =
                                  Append(@, delayf[DelayArg(retries[c])])]
                  /\ timer' = [timer EXCEPT ![c] = FALSE]
                  /\ pc' = [pc EXCEPT ![c] = "select"]
                  /\ UNCHANGED result
    /\ UNCHANGED << max, delayf, entry, ctx, tokenErr, retries, woken,
                    completed, firedAt, runs, work, dcall >>

\* The duration given to time.After elapses and its channel gets a value.  A
\* parked select with no case chosen yet is readied by it.
TimerExpire(c) ==
    /\ pc[c] \in {"select", "parked"}
    /\ ~timer[c]
    /\ timer' = [timer EXCEPT ![c] = TRUE]
    /\ woken' = [woken EXCEPT ![c] =
                    IF pc[c] = "parked" /\ woken[c] = "none"
                    THEN "timer" ELSE @]
    /\ UNCHANGED << max, delayf, pc, entry, ctx, tokenErr, retries, result,
                    outs, sleeps, completed, firedAt, runs, work, dcall >>

\* Variant: the error of sleep is ignored.
SleepReturnTimerOnly(c, which) ==
    /\ retries' = [retries EXCEPT ![c] = @ + 1]
    /\ completed' = [completed EXCEPT ![c] = @ + 1]
    /\ pc' = [pc EXCEPT ![c] = "loop"]
    /\ UNCHANGED result
\* Variant: a sleep that ran its full time is not counted.
SleepReturnSkipsCount(c, which) ==
    IF which = "timer"
    THEN /\ completed' = [completed EXCEPT ![c] = @ + 1]
         /\ pc' = [pc EXCEPT ![c] = "loop"]
         /\ UNCHANGED << retries, result >>
    ELSE /\ result' = [result EXCEPT ![c] = CtxErr(c)]
         /\ pc' = [pc EXCEPT ![c] = "done"]
         /\ UNCHANGED << retries, completed >>
\* sleep returns through case which; RunCtx returns the error or counts the
\* retry and loops.
SleepReturn(c, which) ==
    IF which = "timer"
    THEN /\ retries' = [retries EXCEPT ![c] = @ + 1]
         /\ completed' = [completed EXCEPT ![c] = @ + 1]
         /\ pc' = [pc EXCEPT ![c] = "loop"]
         /\ UNCHANGED result
    ELSE /\ result' = [result EXCEPT ![c] = CtxErr(c)]
         /\ pc' = [pc EXCEPT ![c] = "done"]
         /\ UNCHANGED << retries, completed >>

\* The cases of the select that are ready.
ReadyCases(c) ==
    {w \in {"timer"} : timer[c]} \cup {w \in {"ctx"} : Done(c)}

\* select is entered: one of the ready cases is taken, any of them when both
\* are ready; with none ready the goroutine parks.
Select(c) ==
    /\ pc[c] = "select"
    /\ IF ReadyCases(c) = {}
       THEN /\ pc' = [pc EXCEPT ![c] = "parked"]
            /\ woken' = [woken EXCEPT ![c] = "none"]
            /\ UNCHANGED << retries, completed, result >>
       ELSE /\ \E which \in ReadyCases(c) : SleepReturn(c, which)
            /\ UNCHANGED woken
    /\ UNCHANGED << max, delayf, entry, ctx, tokenErr, timer, outs, sleeps,
                    firedAt, runs, work, dcall >>

\* A parked select resumes with the case that readied it.
Wake(c) ==
    /\ pc[c] = "parked"
    /\ woken[c] # "none"
    /\ SleepReturn(c, woken[c])
    /\ woken' = [woken EXCEPT ![c] = "none"]
    /\ UNCHANGED << max, delayf, entry, ctx, tokenErr, timer, outs, sleeps,
                    firedAt, runs, work, dcall >>

Next ==
    \E c \in Calls :
        \/ Run(c)
        \/ \E k \in {"Background", "Token"} : RunCtx(c, k)
        \/ \E e \in TokenErrors : CtxFire(c, e)
        \/ Invoke(c)
        \/ TimerExpire(c)
        \/ Select(c)
        \/ Wake(c)

Spec == Init /\ [][Next]_vars

\* Two callers on one Retrier, given the same work: A calls Run, B calls
\* RunCtx with its token.
InitPair ==
    /\ \E m \in (-1)..MaxMax, f \in {NoDelay, LinearDelay(Millisecond)} :
            NewRetrier(m, f)
    /\ InitCalls(Calls)
    /\ work["B"] = "w1"

NextPair ==
    \/ Run("A")
    \/ RunCtx("B", "Token")
    \/ \E c \in Calls :
        \/ \E e \in TokenErrors : CtxFire(c, e)
        \/ Invoke(c)
        \/ TimerExpire(c)
        \/ Select(c)
        \/ Wake(c)

SpecPair == InitPair /\ [][NextPair]_vars

\* RunCtx has returned and its caller is about to call again on the same
\* Retrier, with the token it had or with a new one.  The locals of the
\* finished call are dead; the history starts over for the next call.
Return(c) ==
    /\ pc[c] = "done"
    /\ runs[c] < MaxRuns
    /\ runs' = [runs EXCEPT ![c] = @ + 1]
    /\ pc' = [pc EXCEPT ![c] = "idle"]
    /\ entry' = [entry EXCEPT ![c] = "none"]
    /\ result' = [result EXCEPT ![c] = Pending]
    /\ outs' = [outs EXCEPT ![c] = << >>]
    /\ sleeps' = [sleeps EXCEPT ![c] = << >>]
    /\ completed' = [completed EXCEPT ![c] = 0]
    /\ \E e \in {tokenErr[c], Nil} :
        /\ tokenErr' = [tokenErr EXCEPT ![c] = e]
        /\ firedAt' = [firedAt EXCEPT ![c] =
                        IF e = Nil THEN NeverFired
                        ELSE [pc |-> "idle", timer |-> FALSE, sleeps |-> 0]]
    /\ UNCHANGED << max, delayf, ctx, retries, timer, woken, work, dcall >>

\* One caller that uses the Retrier for several calls, one after the other.
InitReuse ==
    /\ \E m \in (-1)..MaxMax, f \in {NoDelay, LinearDelay(Millisecond)} :
            NewRetrier(m, f)
    /\ InitCalls({"A"})
    /\ work["B"] = "w1"

NextReuse ==
    \E c \in Calls :
        \/ Run(c)
        \/ \E k \in {"Background", "Token"} : RunCtx(c, k)
        \/ \E e \in TokenErrors : CtxFire(c, e)
        \/ Invoke(c)
        \/ TimerExpire(c)
        \/ Select(c)
        \/ Wake(c)
        \/ Return(c)

SpecReuse == InitReuse /\ [][NextReuse]_vars

\* Two callers of RunCtx on one Retrier at the same time, each with its own
\* token and its own work.
InitConc ==
    /\ \E m \in {0, 1} : NewRetrier(m, LinearDelay(Millisecond))
    /\ InitCalls(Calls)
    /\ work["B"] = "w2"

NextConc ==
    \E c \in Calls :
        \/ RunCtx(c, "Token")
        \/ \E e \in TokenErrors : CtxFire(c, e)
        \/ Invoke(c)
        \/ TimerExpire(c)
        \/ Select(c)
        \/ Wake(c)

SpecConc == InitConc /\ [][NextConc]_vars

\* ----------------------------------------------- delay functions, applied
\* The arguments the delay functions are evaluated on (durations are in
\* nanoseconds; coef and cap of the exponential functions in milliseconds).
ConstDelays == {0, 1, 5, 1000}
Steps == {-Millisecond, -3, 0, 1, 3, Millisecond, 2 * Millisecond}
Caps == Steps \cup {5 * Millisecond}
Coefs == {-1, 0, 1, 2, 3}
Bases == {-2, -1, 0, 1, 2, 3}
MilliCaps == {-4, 0, 1, 4, 5, 20}

Evaluated(fn, a, b, cap, n, out) ==
    /\ dcall' = [fn |-> fn, a |-> a, b |-> b, cap |-> cap, n |-> n,
                 out |-> out]
    /\ UNCHANGED << max, delayf, pc, entry, ctx, tokenErr, retries, timer,
                    woken, result, outs, sleeps, completed, firedAt, runs,
                    work >>

\* fn := NoDelay(); fn(n)
EvalNoDelay(n) == Evaluated("NoDelay", 0, 0, 0, n, NoDelay[n])
\* fn := ConstantDelay(d); fn(n)
EvalConstantDelay(d, n) ==
    Evaluated("ConstantDelay", d, 0, 0, n, ConstantDelay(d)[n])
\* fn := LinearDelay(step); fn(n)
EvalLinearDelay(step, n) ==
    Evaluated("LinearDelay", step, 0, 0, n, LinearDelay(step)[n])
\* fn := CappedLinearDelay(step, cap); fn(n)
EvalCappedLinearDelay(step, cap, n) ==
    Evaluated("CappedLinearDelay", step, 0, cap, n,
              CappedLinearDelay(step, cap)[n])
\* fn := ExponentialDelay(coef, base); fn(n)
EvalExponentialDelay(coef, base, n) ==
    Evaluated("ExponentialDelay", coef, base, 0, n,
              ExponentialDelay(coef, base)[n])
\* fn := CappedExponentialDelay(coef, base, cap); fn(n)
EvalCappedExponentialDelay(coef, base, cap, n) ==
    Evaluated("CappedExponentialDelay", coef, base, cap, n,
              CappedExponentialDelay(coef, base, cap)[n])

\* No call of Run or RunCtx: the delay functions are evaluated on their own.
InitDelay ==
    /\ NewRetrier(0, NoDelay)
    /\ InitCalls({})
    /\ work["B"] = "w1"

NextDelay ==
    \E n \in RetryIdx :
        \/ EvalNoDelay(n)
        \/ \E d \in ConstDelays : EvalConstantDelay(d, n)
        \/ \E step \in Steps : EvalLinearDelay(step, n)
        \/ \E step \in Steps, cap \in Caps :
                EvalCappedLinearDelay(step, cap, n)
        \/ \E coef \in Coefs, base \in Bases :
                EvalExponentialDelay(coef, base, n)
        \/ \E coef \in Coefs, base \in Bases, cap \in MilliCaps :
                EvalCappedExponentialDelay(coef, base, cap, n)

SpecDelay == InitDelay /\ [][NextDelay]_vars

\* ------------------------------------------------------- the unlimited loop
\* With max = -1 the loop has no bound of its own.  The history keeps the
\* last MaxInvocations passes: before the next pass the oldest one is
\* forgotten, and the retry count, which with max = -1 is only the argument
\* of delayf, is reduced with it.
Rewind(c) ==
    /\ pc[c] = "loop"
    /\ max = -1
    /\ Len(outs[c]) = MaxInvocations
    /\ outs' = [outs EXCEPT ![c] = Tail(@)]
    /\ sleeps' = [sleeps EXCEPT ![c] = Tail(@)]
    /\ retries' = [retries EXCEPT ![c] = @ - 1]
    /\ completed' = [completed EXCEPT ![c] = @ - 1]
    /\ firedAt' = [firedAt EXCEPT ![c] =
                    [@ EXCEPT !.sleeps = IF @ > 0 THEN @ - 1 ELSE 0]]
    /\ UNCHANGED << max, delayf, pc, entry, ctx, tokenErr, timer, woken,
                    result, runs, work, dcall >>

\* One caller of RunCtx on a Retrier without a retry limit.
InitLive ==
    /\ \E f \in Schedules : NewRetrier(-1, f)
    /\ InitCalls({"A"})
    /\ work["B"] = "w1"

NextLive ==
    \/ \E k \in {"Background", "Token"} : RunCtx("A", k)
    \/ \E e \in TokenErrors : CtxFire("A", e)
    \/ Invoke("A")
    \/ TimerExpire("A")
    \/ Select("A")
    \/ Wake("A")
    \/ Rewind("A")

\* select takes the ctx.Done() case.
SelectDone(c) == Select(c) /\ pc'[c] = "done"

\* work returns, a timer expires and a runnable goroutine runs.  select
\* chooses among its ready cases uniformly at random: a case that is ready
\* again and again is taken in the end.
FairLive ==
    /\ WF_vars(Invoke("A"))
    /\ WF_vars(TimerExpire("A"))
    /\ WF_vars(Select("A"))
    /\ WF_vars(Wake("A"))
    /\ WF_vars(Rewind("A"))
    /\ SF_vars(SelectDone("A"))

SpecLive == InitLive /\ [][NextLive]_vars /\ FairLive

\* ------------------------------------------------------------- properties
Last(s) == s[Len(s)]
Callers == { c \in Calls : pc[c] # "unused" }
\* Every outcome before the last one asked for a retry with a work error.
RetriedBefore(c) ==
    \A i \in 1..(Len(outs[c]) - 1) :
        outs[c][i].ret /\ outs[c][i].err \in WorkErrors
\* Every outcome so far is (e, true) for one work error e.
AlwaysRetry(c) ==
    \A i \in 1..Len(outs[c]) :
        /\ outs[c][i].ret
        /\ outs[c][i].err \in WorkErrors
        /\ outs[c][i].err = outs[c][1].err

\* C1: whatever max and the retry count, an invocation of work that returns
\* shouldRetry = false is the last one: RunCtx has returned exactly the error
\* of that invocation, every earlier invocation asked for a retry, and no
\* suspension was started after it (none at all when it is the first).
C1_NoRetryReturnsErr ==
    \A c \in Callers :
        (Len(outs[c]) > 0 /\ ~Last(outs[c]).ret) =>
            /\ pc[c] = "done"
            /\ result[c] = Last(outs[c]).err
            /\ \A i \in 1..(Len(outs[c]) - 1) : outs[c][i].ret
            /\ Len(sleeps[c]) = Len(outs[c]) - 1
            /\ completed[c] = Len(outs[c]) - 1
            /\ retries[c] = Len(outs[c]) - 1
C1_Witness ==
    \E c \in Callers :
        /\ pc[c] = "done"
        /\ Len(outs[c]) = 2
        /\ ~Last(outs[c]).ret
        /\ result[c] \in WorkErrors
        /\ max = 1
        /\ retries[c] = max

\* C2: with max = m >= 0, a token that has not fired and work returning
\* (err, true) on every invocation, the run is over exactly when work has
\* been invoked m+1 times, and RunCtx then returns the budget-exhausted
\* error wrapping err after exactly m completed suspensions.
C2_BudgetExhausted ==
    \A c \in Callers :
        (max >= 0 /\ ~Done(c) /\ Len(outs[c]) > 0 /\ AlwaysRetry(c)) =>
            /\ Len(outs[c]) <= max + 1
            /\ (pc[c] = "done") <=> (Len(outs[c]) = max + 1)
            /\ pc[c] = "done" =>
                /\ result[c] = Errorf(outs[c][1].err)
                /\ IsBudgetExhausted(result[c])
                /\ Unwrap(result[c]) = outs[c][1].err
                /\ completed[c] = max
                /\ Len(sleeps[c]) = max
C2_Witness ==
    \E c \in Callers :
        /\ max = 1
        /\ pc[c] = "done"
        /\ ~Done(c)
        /\ AlwaysRetry(c)
        /\ Len(outs[c]) = 2
        /\ completed[c] = 1
        /\ IsBudgetExhausted(result[c])

\* C3: when work returned (err, true) exactly k times and then (nil, false),
\* the token has not fired and k is within the budget, RunCtx has returned
\* nil after exactly k suspensions, all completed, whose requested durations
\* are delayf(0), ..., delayf(k-1) in this order.
C3_SucceedsAfterK ==
    \A c \in Callers :
        LET k == Len(outs[c]) - 1 IN
        (/\ Len(outs[c]) > 0
         /\ Last(outs[c]) = [err |-> Nil, ret |-> FALSE]
         /\ RetriedBefore(c)
         /\ ~Done(c)
         /\ (max = -1 \/ k <= max)) =>
            /\ pc[c] = "done"
            /\ result[c] = Nil
            /\ Len(sleeps[c]) = k
            /\ completed[c] = k
            /\ \A i \in 1..k : sleeps[c][i] = delayf[i - 1]
C3_Witness ==
    \E c \in Callers :
        /\ pc[c] = "done"
        /\ result[c] = Nil
        /\ Len(outs[c]) = 3
        /\ RetriedBefore(c)
        /\ ~Done(c)
        /\ sleeps[c] = << Millisecond, 2 * Millisecond >>

C5_CancellationAlwaysWins ==
    [][ \A c \in Callers :
          (pc[c] \in {"select", "parked"} /\ Done(c)) => pc'[c] # "loop" ]_vars

\* The terminal conditions of a run that has returned.
EndedByWork(c) ==
    /\ ~Last(outs[c]).ret
    /\ result[c] = Last(outs[c]).err
EndedByBudget(c) ==
    /\ Last(outs[c]).ret
    /\ IsBudgetExhausted(result[c])
    /\ Unwrap(result[c]) = Last(outs[c]).err
    /\ max # -1
    /\ retries[c] >= max
    /\ max >= 0 => retries[c] = max
\* A suspension was pending when the run ended and it returned the error of
\* the fired token.
EndedBySleep(c) ==
    /\ Last(outs[c]).ret
    /\ ctx[c] = "Token"
    /\ result[c] = tokenErr[c]
    /\ result[c] \in TokenErrors
    /\ Len(sleeps[c]) = Len(outs[c])
    /\ completed[c] = Len(sleeps[c]) - 1
\* The token fired while a suspension was pending.
FiredDuringSleep(c) == firedAt[c].pc \in {"select", "parked"}
\* The token fired before the run returned.
FiredBeforeReturn(c) == firedAt[c].pc \in {"idle", "loop", "select", "parked"}

\* C6 as stated: with max = -1 no run ends with a budget-exhausted error; a
\* run that ended did so because work returned shouldRetry = false or because
\* the token fired during a suspension; a run whose work always asked for a
\* retry and whose token has not fired has not ended.
C6_Original ==
    \A c \in Callers :
        max = -1 =>
            /\ ~IsBudgetExhausted(result[c])
            /\ pc[c] = "done" =>
                \/ EndedByWork(c)
                \/ EndedBySleep(c) /\ FiredDuringSleep(c)
            /\ (\A i \in 1..Len(outs[c]) : outs[c][i].ret) /\ ~Done(c)
                    => pc[c] # "done"
\* C6 amended: with max = -1 no run ends with a budget-exhausted error; a run
\* that ended did so because work returned shouldRetry = false or because a
\* suspension found the token fired, during that suspension or before it; a
\* run whose work always asked for a retry and whose token has not fired has
\* not ended.
C6_Unlimited ==
    \A c \in Callers :
        max = -1 =>
            /\ ~IsBudgetExhausted(result[c])
            /\ pc[c] = "done" =>
                \/ EndedByWork(c)
                \/ EndedBySleep(c) /\ FiredBeforeReturn(c)
            /\ (\A i \in 1..Len(outs[c]) : outs[c][i].ret) /\ ~Done(c)
                    => pc[c] # "done"
C6_Witness ==
    \E c \in Callers :
        /\ max = -1
        /\ Len(outs[c]) = MaxInvocations
        /\ retries[c] = MaxInvocations - 1
        /\ Last(outs[c]).ret
        /\ pc[c] = "select"

\* C7: with max = m >= 0 work is invoked at most m+1 times and at most m
\* suspensions complete; with m = 0 a run that returned invoked work exactly
\* once and never suspended, and a retryable first outcome gave the
\* budget-exhausted error.
C7_MaxBoundsRetries ==
    \A c \in Callers :
        max >= 0 =>
            /\ Len(outs[c]) <= max + 1
            /\ completed[c] <= max
            /\ Len(sleeps[c]) <= max
            /\ max = 0 =>
                /\ pc[c] = "done" <=> Len(outs[c]) = 1
                /\ (Len(outs[c]) = 1 /\ outs[c][1].ret) =>
                        result[c] = Errorf(outs[c][1].err)
C7_Witness ==
    \E c \in Callers :
        /\ max = 0
        /\ pc[c] = "done"
        /\ Len(outs[c]) = 1
        /\ outs[c][1].ret
        /\ IsBudgetExhausted(result[c])
        /\ sleeps[c] = << >>

\* C8: the cause of a budget-exhausted error, recovered by unwrapping, is the
\* error returned by the last invocation of work, the one made at retry count
\* max (for max >= 0).
C8_WrapsLastError ==
    \A c \in Callers :
        IsBudgetExhausted(result[c]) =>
            /\ pc[c] = "done"
            /\ Unwrap(result[c]) = Last(outs[c]).err
            /\ max >= 0 => (retries[c] = max /\ Len(outs[c]) = max + 1)
C8_Witness ==
    \E c \in Callers :
        /\ IsBudgetExhausted(result[c])
        /\ Len(outs[c]) = 2
        /\ outs[c][1].err \in WorkErrors
        /\ outs[c][2].err \in WorkErrors
        /\ outs[c][1].err # outs[c][2].err
        /\ Unwrap(result[c]) = outs[c][2].err

C10_RunSameAsRunCtx ==
    /\ \A c \in Callers : entry[c] = "Run" => result[c] \notin TokenErrors
    /\ \A a, b \in Callers :
        (/\ entry[a] = "Run" /\ entry[b] = "RunCtx"
         /\ pc[a] = "done" /\ pc[b] = "done"
         /\ ctx[b] = "Token" /\ tokenErr[b] = Nil) =>
            /\ result[a] = result[b]
            /\ outs[a] = outs[b]
            /\ sleeps[a] = sleeps[b]
            /\ completed[a] = completed[b]
C10_Witness ==
    /\ entry["A"] = "Run" /\ entry["B"] = "RunCtx"
    /\ pc["A"] = "done" /\ pc["B"] = "done"
    /\ tokenErr["A"] # Nil /\ tokenErr["B"] = Nil
    /\ Len(outs["A"]) = 3
    /\ Len(sleeps["B"]) = 2
    /\ result["B"] \in WorkErrors

\* What belongs to one call: its position, its context and token, the locals
\* of RunCtx and sleep, and its history.
Local(c) ==
    << pc[c], entry[c], ctx[c], tokenErr[c], retries[c], timer[c], woken[c],
       result[c], outs[c], sleeps[c], completed[c], firedAt[c] >>
\* The counter, the requested delays and the result of call c are those its
\* own outcomes and its own token give a call that runs alone.
RunsAsAlone(c) ==
    /\ retries[c] = completed[c]
    /\ \A i \in 1..Len(sleeps[c]) : sleeps[c][i] = delayf[i - 1]
    /\ pc[c] = "idle" => (outs[c] = << >> /\ sleeps[c] = << >>)
    /\ pc[c] = "loop" =>
            (Len(outs[c]) = completed[c] /\ Len(sleeps[c]) = completed[c])
    /\ pc[c] \in {"select", "parked"} =>
            /\ Len(outs[c]) = completed[c] + 1
            /\ Len(sleeps[c]) = completed[c] + 1
            /\ Last(outs[c]).ret
    /\ pc[c] = "done" =>
            /\ Len(outs[c]) = completed[c] + 1
            /\ \/ EndedByWork(c) /\ Len(sleeps[c]) = completed[c]
               \/ EndedByBudget(c) /\ Len(sleeps[c]) = completed[c]
               \/ EndedBySleep(c)

\* C11: calls of RunCtx running at the same time on one Retrier are
\* independent: under every interleaving each call keeps its own retry
\* counter, its result, invocations and requested delays are those of the
\* call run alone on its own outcomes and token, and a step of one call
\* changes nothing of the other call nor of the Retrier.
C11_Independent ==
    /\ [](\A c \in Callers : RunsAsAlone(c))
    /\ [][ /\ max' = max
           /\ delayf' = delayf
           /\ \A c, d \in Calls :
                (c # d /\ Local(c)' # Local(c)) => Local(d)' = Local(d) ]_vars
C11_Witness ==
    /\ max = 1
    /\ entry["A"] = "RunCtx" /\ entry["B"] = "RunCtx"
    /\ pc["A"] = "parked" /\ retries["A"] = 0
    /\ pc["B"] = "done" /\ retries["B"] = 1
    /\ IsBudgetExhausted(result["B"])
    /\ Len(outs["A"]) = 1 /\ Len(outs["B"]) = 2
    /\ outs["A"][1] # outs["B"][1]

\* C12: no state survives between runs: Run and RunCtx never change max or
\* delayf, and a run on a reused Retrier, whatever the earlier runs did,
\* counts its retries from 0: the counter is the number of its own completed
\* suspensions, its i-th suspension requests delayf(i-1), so the first one
\* delayf(0), and it gives up only after max retries of its own.
C12_NoStateSurvives ==
    /\ [][max' = max /\ delayf' = delayf]_vars
    /\ [](\A c \in Callers :
            (runs[c] >= 1 /\ pc[c] # "idle") =>
                /\ retries[c] = completed[c]
                /\ \A i \in 1..Len(sleeps[c]) : sleeps[c][i] = delayf[i - 1]
                /\ (max >= 0 /\ IsBudgetExhausted(result[c])) =>
                        (completed[c] = max /\ Len(outs[c]) = max + 1)
                /\ Len(outs[c]) \in {completed[c], completed[c] + 1})
C12_Witness ==
    \E c \in Callers :
        /\ runs[c] >= 1
        /\ max = 1
        /\ pc[c] = "done"
        /\ IsBudgetExhausted(result[c])
        /\ sleeps[c] = << Millisecond >>
        /\ completed[c] = 1

\* The token fired before the duration of the pending sleep had elapsed.
TokenFirst(c) ==
    /\ Done(c)
    /\ ~(/\ firedAt[c].pc \in {"select", "parked"}
         /\ firedAt[c].sleeps = Len(sleeps[c])
         /\ firedAt[c].timer)

\* C13: sleep returns nil only if the duration has elapsed, returns the
\* token's error only if the token has fired, and returns the token's error,
\* not nil, when the token fired before the duration elapsed.
C13_SleepContract ==
    [][ \A c \in Callers :
          pc[c] \in {"select", "parked"} =>
            /\ pc'[c] = "loop" => (timer[c] /\ ~TokenFirst(c))
            /\ pc'[c] = "done" => (Done(c) /\ result'[c] = tokenErr[c]) ]_vars

\* C14: for every d >= 0 and every index n, the function returned by
\* ConstantDelay(d) returns exactly d.
C14_ConstantDelay ==
    (dcall.fn = "ConstantDelay" /\ dcall.a >= 0) => dcall.out = dcall.a

InLoop(c) == pc[c] \in {"loop", "select", "parked"}

\* C19: without a retry limit (max = -1), once the token RunCtx was given
\* has fired, a call whose work asks for a retry every time returns in the
\* end, and what it returns is the error of the token (deadline exceeded for
\* a deadline), whatever the delay function.  (A call ends otherwise only
\* when work returns shouldRetry = false.)
C19_CancelTerminates ==
    \A c \in {"A"}, e \in TokenErrors :
        (max = -1 /\ InLoop(c) /\ ctx[c] = "Token" /\ tokenErr[c] = e)
            ~> (pc[c] = "done"
                /\ (result[c] = e \/ ~Last(outs[c]).ret))
\* RunCtx returned deadline exceeded after work had asked for a retry in
\* more passes than the history keeps.
C19_Witness ==
    /\ max = -1
    /\ pc["A"] = "done"
    /\ Len(outs["A"]) = MaxInvocations
    /\ \A i \in 1..MaxInvocations : outs["A"][i].ret
    /\ firedAt["A"].pc = "select" /\ firedAt["A"].sleeps = 0
    /\ tokenErr["A"] = Err("context deadline exceeded")
    /\ result["A"] = Err("context deadline exceeded")

\* C20: shouldRetry alone decides, whether the error is nil or not.  Every
\* outcome that was followed by another invocation had shouldRetry = true.
\* The last outcome, if it has shouldRetry = true, was followed by a
\* suspension when the retry count was below max (or max = -1), and ended the
\* call with the budget-exhausted error when the retry count was max, also
\* when its error is nil; if it has shouldRetry = false, the call returned its
\* error and no suspension followed it.
C20_BoolAloneDecides ==
    \A c \in Callers :
        /\ \A i \in 1..(Len(outs[c]) - 1) : outs[c][i].ret
        /\ outs[c] # << >> =>
            LET n == Len(outs[c])
                o == Last(outs[c])
            IN  /\ (o.ret /\ (max = -1 \/ n - 1 < max)) =>
                    /\ Len(sleeps[c]) = n
                    /\ pc[c] = "loop" => (completed[c] = n /\ retries[c] = n)
                    /\ pc[c] = "done" => result[c] = tokenErr[c]
                /\ (o.ret /\ max # -1 /\ n - 1 >= max) =>
                    /\ pc[c] = "done"
                    /\ IsBudgetExhausted(result[c])
                    /\ Unwrap(result[c]) = o.err
                    /\ Len(sleeps[c]) = n - 1
                /\ ~o.ret =>
                    /\ pc[c] = "done"
                    /\ result[c] = o.err
                    /\ Len(sleeps[c]) = n - 1
\* (nil, true) twice with max = 1: one suspension, a second invocation, and
\* the budget-exhausted error around a nil cause.
C20_Witness ==
    \E c \in Callers :
        /\ max = 1
        /\ outs[c] = << [err |-> Nil, ret |-> TRUE], [err |-> Nil, ret |-> TRUE] >>
        /\ Len(sleeps[c]) = 1
        /\ pc[c] = "done"
        /\ IsBudgetExhausted(result[c])
        /\ result[c] # Nil
\* (e, false) with a non-nil e on the first invocation: returned at once.
C20_WitnessNotRetried ==
    \E c \in Callers :
        /\ outs[c] = << [err |-> Err("e1"), ret |-> FALSE] >>
        /\ sleeps[c] = << >>
        /\ result[c] = Err("e1")

\* The invocations of work the call has started: those that returned plus,
\* at the top of the loop, the one being made.
Started(c) == Len(outs[c]) + (IF pc[c] = "loop" THEN 1 ELSE 0)
\* RunCtx has been called.
Called(c) == pc[c] \in {"loop", "select", "parked", "done"}

\* C21: throughout a call of RunCtx the retry count is the number of sleeps
\* that returned with the delay elapsed, and one less than the number of
\* invocations of work started; every sleep was asked for the delay of the
\* retry count at that time; with max >= 0 the count never exceeds max.  The
\* count is 0 when RunCtx starts, also on a Retrier that was used before, and
\* during the call it changes only by one, when a sleep returns through the
\* timer case.
C21_RetryCounter ==
    /\ [](\A c \in Callers : Called(c) =>
            /\ retries[c] = completed[c]
            /\ retries[c] = Started(c) - 1
            /\ Len(sleeps[c]) - completed[c] \in {0, 1}
            /\ \A i \in 1..Len(sleeps[c]) : sleeps[c][i] = delayf[i - 1]
            /\ pc[c] \in {"select", "parked"} =>
                    Last(sleeps[c]) = delayf[retries[c]]
            /\ max >= 0 => retries[c] <= max)
    /\ [][\A c \in Callers :
            /\ (pc[c] = "idle" /\ pc'[c] # "idle") => retries'[c] = 0
            /\ (pc[c] # "idle" /\ retries'[c] # retries[c]) =>
                /\ retries'[c] = retries[c] + 1
                /\ pc[c] \in {"select", "parked"} /\ pc'[c] = "loop"
                /\ timer[c]
                /\ completed'[c] = completed[c] + 1
            /\ (pc'[c] # "idle" /\ completed'[c] # completed[c]) =>
                retries'[c] # retries[c]]_vars
\* Two sleeps ran their time and the third is pending, asked for delayf(2).
C21_Witness ==
    \E c \in Callers :
        /\ max = -1
        /\ delayf = LinearDelay(Millisecond)
        /\ pc[c] = "parked"
        /\ retries[c] = 2 /\ completed[c] = 2 /\ Len(outs[c]) = 3
        /\ sleeps[c] = << Millisecond, 2 * Millisecond, 3 * Millisecond >>

\* The logical states of a call: work is being invoked, a sleep is pending,
\* RunCtx has returned.
Running(c) == pc[c] = "loop"
Delaying(c) == pc[c] \in {"select", "parked"}
Terminated(c) == pc[c] = "done"

\* C22: a call moves only from Running to Delaying (work asked for a retry
\* and the budget allows it), from Running to Terminated (work did not ask
\* for a retry, or the budget is spent), from Delaying to Running (the timer
\* has a value) and from Delaying to Terminated (the token has fired, and
\* its error is returned).  Work returns only in Running; a sleep begins only
\* on the step from Running to Delaying, which evaluates delayf once; each
\* invocation after the first has exactly one sleep between it and the one
\* before; nothing changes once the call is Terminated.
C22_StateMachine ==
    /\ [](\A c \in Callers :
            /\ Running(c) => Len(sleeps[c]) = Len(outs[c])
            /\ Delaying(c) => Len(sleeps[c]) = Len(outs[c])
            /\ Terminated(c) =>
                    Len(sleeps[c]) \in {Len(outs[c]) - 1, Len(outs[c])}
            /\ Running(c) => completed[c] = Len(sleeps[c]))
    /\ [][\A c \in Callers :
            /\ (Running(c) /\ ~Running(c)') =>
                /\ outs'[c] = Append(outs[c], Last(outs'[c]))
                /\ LET o == Last(outs'[c])
                       within == max = -1 \/ retries[c] < max
                   IN  /\ Delaying(c)' <=> (o.ret /\ within)
                       /\ Terminated(c)' <=> (~o.ret \/ ~within)
                       /\ Delaying(c)' =>
                            sleeps'[c] = Append(sleeps[c], delayf[retries[c]])
                       /\ Terminated(c)' => sleeps'[c] = sleeps[c]
            /\ (Delaying(c) /\ ~Delaying(c)') =>
                /\ Running(c)' \/ Terminated(c)'
                /\ Running(c)' => timer[c]
                /\ Terminated(c)' => (Done(c) /\ result'[c] = tokenErr[c])
            /\ outs'[c] # outs[c] => Running(c)
            /\ sleeps'[c] # sleeps[c] => (Running(c) /\ Delaying(c)')
            /\ Terminated(c) =>
                /\ Terminated(c)'
                /\ << result[c], outs[c], sleeps[c], retries[c] >>'
                        = << result[c], outs[c], sleeps[c], retries[c] >>
         ]_vars
\* All four moves were made: two sleeps began, the first ran its time, the
\* second was ended by the token.
C22_Witness ==
    \E c \in Callers :
        /\ Terminated(c)
        /\ Len(outs[c]) = 2 /\ Len(sleeps[c]) = 2 /\ completed[c] = 1
        /\ result[c] \in TokenErrors
\* The move from Running to Terminated: the budget is spent after one retry.
C22_WitnessBudget ==
    \E c \in Callers :
        /\ Terminated(c)
        /\ Len(outs[c]) = 2 /\ Len(sleeps[c]) = 1 /\ completed[c] = 1
        /\ IsBudgetExhausted(result[c])

\* The token had fired before the first invocation of work returned: before
\* RunCtx was called, or while that invocation was under way.
FiredBeforeFirstOutcome(c) ==
    /\ Done(c)
    /\ firedAt[c].pc \in {"idle", "loop"}
    /\ firedAt[c].sleeps = 0

\* C23: RunCtx looks at the token only in sleep.  A call returns only after
\* work was invoked, also when its token had fired before the call.  When
\* the token has fired and work returns shouldRetry = false, the call
\* returns the error of work (nil included), not the token's; when the token
\* has fired and work returns shouldRetry = true at retry count max, the call
\* returns the budget-exhausted error, not the token's.  The token's error is
\* returned only out of a sleep.
C23_CancellationOnlyInSleep ==
    \A c \in Callers :
        /\ Terminated(c) => Len(outs[c]) >= 1
        /\ (Terminated(c) /\ result[c] \in TokenErrors) =>
                /\ Len(sleeps[c]) = Len(outs[c])
                /\ Last(outs[c]).ret
        /\ (Done(c) /\ outs[c] # << >> /\ ~Last(outs[c]).ret) =>
                /\ Terminated(c)
                /\ result[c] = Last(outs[c]).err
                /\ result[c] \notin TokenErrors
        /\ (Done(c) /\ max >= 0 /\ Len(outs[c]) = max + 1
                /\ Last(outs[c]).ret) =>
                /\ Terminated(c)
                /\ IsBudgetExhausted(result[c])
                /\ Unwrap(result[c]) = Last(outs[c]).err
\* RunCtx was called with a fired token, invoked work once and returned the
\* error of work.
C23_Witness ==
    \E c \in Callers :
        /\ Done(c) /\ firedAt[c].pc = "idle"
        /\ FiredBeforeFirstOutcome(c)
        /\ outs[c] = << [err |-> Err("e1"), ret |-> FALSE] >>
        /\ Terminated(c)
        /\ result[c] = Err("e1")
\* The same with a nil error: the call of a cancelled context succeeds.
C23_WitnessNil ==
    \E c \in Callers :
        /\ Done(c) /\ firedAt[c].pc = "idle"
        /\ outs[c] = << [err |-> Nil, ret |-> FALSE] >>
        /\ result[c] = Nil
\* The token fired during the invocation made at retry count max = 1, which
\* asked for a retry: budget exhausted.
C23_WitnessBudget ==
    \E c \in Callers :
        /\ Done(c) /\ firedAt[c].pc = "loop" /\ firedAt[c].sleeps = 1
        /\ max = 1 /\ Len(outs[c]) = 2
        /\ IsBudgetExhausted(result[c])

\* A call that allows no retry: work is invoked once and the call returns
\* without a sleep, with the error of work when shouldRetry = false and with
\* the budget-exhausted error around it when shouldRetry = true.
NoRetryAllowed(c) ==
    /\ Len(outs[c]) <= 1
    /\ sleeps[c] = << >>
    /\ retries[c] = 0 /\ completed[c] = 0
    /\ ~Delaying(c)
    /\ Terminated(c) <=> Len(outs[c]) = 1
    /\ Len(outs[c]) = 1 =>
        /\ ~outs[c][1].ret => result[c] = outs[c][1].err
        /\ outs[c][1].ret =>
            /\ IsBudgetExhausted(result[c])
            /\ Unwrap(result[c]) = outs[c][1].err

\* C24: only -1 means no limit.  With max < -1 a call behaves as with
\* max = 0: the first outcome with shouldRetry = true ends it with the
\* budget-exhausted error, after one invocation and no sleep.
C24_OnlyMinusOneUnlimited ==
    \A c \in Callers :
        /\ (max < -1 \/ max = 0) => NoRetryAllowed(c)
        /\ (max = -1 /\ outs[c] # << >> /\ outs[c][1].ret) =>
                ~NoRetryAllowed(c)
\* max = -3: (e1, true) on the first invocation, budget exhausted.
C24_Witness ==
    \E c \in Callers :
        /\ max = -3
        /\ outs[c] = << [err |-> Err("e1"), ret |-> TRUE] >>
        /\ sleeps[c] = << >>
        /\ Terminated(c)
        /\ IsBudgetExhausted(result[c])
        /\ Unwrap(result[c]) = Err("e1")

TypeOK ==
    /\ max \in (-3)..(MaxMax + 1)
    /\ \A c \in Calls :
        /\ pc[c] \in {"unused", "idle", "loop", "select", "parked", "done"}
        /\ retries[c] \in 0..MaxInvocations
        /\ result[c] \in {Pending, Nil} \cup WorkErrors \cup TokenErrors
                            \cup { Errorf(e) : e \in WorkErrors \cup {Nil} }
====
